---- MODULE Spec2Model ----
(***************************************************************************)
(* Model of pettingzoo_colab_visualizer/recorder.py: the filename parsers  *)
(* (extract_episode_number, _safe_episode_number_from_filename), the frame *)
(* normalisation, the banner rectangle of _add_episode_text_to_frames,     *)
(* save_gif and create_video_from_gifs.                                    *)
(*                                                                         *)
(* A Python str is a sequence of one-character strings, so that regular    *)
(* expression search, Path.stem, int() and str() are computed as the code  *)
(* computes them.                                                          *)
(***************************************************************************)
EXTENDS Integers, Sequences, FiniteSets, TLC

VARIABLES
    pc,            \* position of the running operation
    \* the filename parsers
    filename,      \* argument of the two filename parsers
    key,           \* result of extract_episode_number
    label,         \* result of _safe_episode_number_from_filename
    \* create_video_from_gifs
    folder_kind,   \* what gif_folder is on disk: "missing", "dir" or "file"
    entries,       \* gif_dir.iterdir(): the entry names, in enumeration order
    frames_in,     \* number of frames stored in each recording of the folder
    resize_width,  \* argument resize_width
    gif_files,     \* local gif_files
    decoded,       \* the recordings read by imageio.mimread so far, in order
    clips,         \* local clips
    output,        \* what has been written to output_file (None: nothing)
    result,        \* how the call ended: None, <<"return", v>> or <<"raise", e>>
    \* the banner of _add_episode_text_to_frames
    frame_w,       \* w: width of the frame
    frame_h,       \* h: height of the frame
    text_w,        \* width of the text, from cv2.getTextSize
    text_h,        \* height of the text, from cv2.getTextSize
    rect,          \* <<rect_x1, rect_y1, rect_x2, rect_y2>> and the text origin
    \* frame normalisation
    channel,       \* one channel value of a frame, with the array's dtype
    site,          \* the function that normalised it
    normalized,    \* the channel value after normalisation
    \* save_gif
    fs0,           \* the filesystem before the first call
    fs,            \* the filesystem: path -> [kind, data]
    call,          \* the arguments of the last call of save_gif
    prev           \* the call before it: its arguments, result and filesystem

nameVars == <<filename, key, label>>
videoVars == <<folder_kind, entries, frames_in, resize_width, gif_files, decoded,
               clips, output>>
rectVars == <<frame_w, frame_h, text_w, text_h, rect>>
normVars == <<channel, site, normalized>>
saveVars == <<fs0, fs, call, prev>>
vars == <<pc, result, nameVars, videoVars, rectVars, normVars, saveVars>>
exceptName == <<result, videoVars, rectVars, normVars, saveVars>>
exceptVideo == <<nameVars, rectVars, normVars, saveVars>>
exceptRect == <<result, nameVars, videoVars, normVars, saveVars>>
exceptNorm == <<result, nameVars, videoVars, rectVars, saveVars>>
exceptSave == <<nameVars, videoVars, rectVars, normVars>>

None == "None"

(***************************************************************************)
(* Characters                                                              *)
(***************************************************************************)
Digit == {"0", "1", "2", "3", "4", "5", "6", "7", "8", "9"}

DigitVal == [c \in Digit |->
    CASE c = "0" -> 0 [] c = "1" -> 1 [] c = "2" -> 2 [] c = "3" -> 3
      [] c = "4" -> 4 [] c = "5" -> 5 [] c = "6" -> 6 [] c = "7" -> 7
      [] c = "8" -> 8 [] c = "9" -> 9]

\* str.lower() / re.IGNORECASE folding of one character
Lower(c) ==
    CASE c = "A" -> "a" [] c = "B" -> "b" [] c = "C" -> "c" [] c = "D" -> "d"
      [] c = "E" -> "e" [] c = "F" -> "f" [] c = "G" -> "g" [] c = "H" -> "h"
      [] c = "I" -> "i" [] c = "J" -> "j" [] c = "K" -> "k" [] c = "L" -> "l"
      [] c = "M" -> "m" [] c = "N" -> "n" [] c = "O" -> "o" [] c = "P" -> "p"
      [] c = "Q" -> "q" [] c = "R" -> "r" [] c = "S" -> "s" [] c = "T" -> "t"
      [] c = "U" -> "u" [] c = "V" -> "v" [] c = "W" -> "w" [] c = "X" -> "x"
      [] c = "Y" -> "y" [] c = "Z" -> "z" [] OTHER -> c

LowerStr(s) == [i \in 1..Len(s) |-> Lower(s[i])]

\* int(digits): decimal value, leading zeros allowed
RECURSIVE IntOf(_)
IntOf(ds) ==
    IF ds = <<>> THEN 0
    ELSE 10 * IntOf(SubSeq(ds, 1, Len(ds) - 1)) + DigitVal[ds[Len(ds)]]

(***************************************************************************)
(* Regular expression search, as re.search runs it: start positions left   *)
(* to right, alternatives in the order written, \d+ and \d{1,6} greedy.    *)
(***************************************************************************)
\* the literal lit matches s at position i, ignoring case
LitAt(s, i, lit) ==
    /\ i >= 1
    /\ i + Len(lit) - 1 <= Len(s)
    /\ \A k \in 1..Len(lit) : Lower(s[i + k - 1]) = lit[k]

\* greedy run of at most max digits starting at position i
RECURSIVE DigitRun(_, _, _)
DigitRun(s, i, max) ==
    IF max > 0 /\ i <= Len(s) /\ s[i] \in Digit
    THEN <<s[i]>> \o DigitRun(s, i + 1, max - 1)
    ELSE <<>>

\* r"ep(\d+)" with re.IGNORECASE, anchored at i: group 1, or None
MatchEpAt(s, i) ==
    IF LitAt(s, i, <<"e", "p">>) /\ DigitRun(s, i + 2, Len(s)) # <<>>
    THEN DigitRun(s, i + 2, Len(s))
    ELSE None

RECURSIVE SearchEpFrom(_, _)
SearchEpFrom(s, i) ==
    IF i > Len(s) THEN None
    ELSE IF MatchEpAt(s, i) # None THEN MatchEpAt(s, i)
    ELSE SearchEpFrom(s, i + 1)

SearchEp(s) == SearchEpFrom(s, 1)

\* the alternatives of r"(episode|ep|episo|e)_(\d+)", in the order written
KeywordAlternatives ==
    << <<"e", "p", "i", "s", "o", "d", "e">>,
       <<"e", "p">>,
       <<"e", "p", "i", "s", "o">>,
       <<"e">> >>

\* one alternative, then "_", then \d+, anchored at i: the last group, or None
MatchAltAt(s, i, alt) ==
    LET u == i + Len(alt) IN
    IF /\ LitAt(s, i, alt)
       /\ u <= Len(s)
       /\ s[u] = "_"
       /\ DigitRun(s, u + 1, Len(s)) # <<>>
    THEN DigitRun(s, u + 1, Len(s))
    ELSE None

RECURSIVE MatchKeywordAt(_, _, _)
MatchKeywordAt(s, i, a) ==
    IF a > Len(KeywordAlternatives) THEN None
    ELSE IF MatchAltAt(s, i, KeywordAlternatives[a]) # None
         THEN MatchAltAt(s, i, KeywordAlternatives[a])
    ELSE MatchKeywordAt(s, i, a + 1)

RECURSIVE SearchKeywordFrom(_, _)
SearchKeywordFrom(s, i) ==
    IF i > Len(s) THEN None
    ELSE IF MatchKeywordAt(s, i, 1) # None THEN MatchKeywordAt(s, i, 1)
    ELSE SearchKeywordFrom(s, i + 1)

SearchKeyword(s) == SearchKeywordFrom(s, 1)

\* the repetition bound of r"(\d{1,6})"
MaxLabelDigits == 6

RECURSIVE SearchDigitsFrom(_, _)
SearchDigitsFrom(s, i) ==
    IF i > Len(s) THEN None
    ELSE IF DigitRun(s, i, MaxLabelDigits) # <<>> THEN DigitRun(s, i, MaxLabelDigits)
    ELSE SearchDigitsFrom(s, i + 1)

SearchDigits(s) == SearchDigitsFrom(s, 1)

(***************************************************************************)
(* pathlib: PurePath.suffix and PurePath.stem of a name without "/"        *)
(***************************************************************************)
\* name.rfind("."), 1-based; 0 when there is no dot
RFindDot(name) ==
    IF \E i \in 1..Len(name) : name[i] = "."
    THEN CHOOSE i \in 1..Len(name) :
            /\ name[i] = "."
            /\ \A j \in (i + 1)..Len(name) : name[j] # "."
    ELSE 0

\* PurePath(name).name: a lone "." is the current directory and has no name
FinalComponent(name) == IF name = <<".">> THEN <<>> ELSE name

HasSuffix(name) == 1 < RFindDot(name) /\ RFindDot(name) < Len(name)

Suffix(name) ==
    IF HasSuffix(name) THEN SubSeq(name, RFindDot(name), Len(name)) ELSE <<>>

Stem(name) ==
    IF HasSuffix(name) THEN SubSeq(name, 1, RFindDot(name) - 1)
    ELSE FinalComponent(name)

(***************************************************************************)
(* The two filename parsers                                                *)
(***************************************************************************)
\* as extract_episode_number, the pattern written r"ep(\d)": one digit only
extract_episode_number_one_digit(name) ==
    IF SearchEp(name) # None THEN IntOf(<<Head(SearchEp(name))>>) ELSE 0

extract_episode_number(name) ==
    IF SearchEp(name) # None THEN IntOf(SearchEp(name)) ELSE 0

\* as _safe_episode_number_from_filename, the bare digit pattern tried before
\* the keyword pattern
safe_episode_number_digits_first(name) ==
    LET base == Stem(name) IN
    IF SearchEp(base) # None THEN SearchEp(base)
    ELSE IF SearchDigits(base) # None THEN SearchDigits(base)
    ELSE IF SearchKeyword(base) # None THEN SearchKeyword(base)
    ELSE base

safe_episode_number_from_filename(name) ==
    LET base == Stem(name) IN
    IF SearchEp(base) # None THEN SearchEp(base)
    ELSE IF SearchKeyword(base) # None THEN SearchKeyword(base)
    ELSE IF SearchDigits(base) # None THEN SearchDigits(base)
    ELSE base

(***************************************************************************)
(* Filenames the parsers are applied to: up to MaxParts pieces followed by *)
(* an extension.                                                           *)
(***************************************************************************)
MaxParts == 3

Pieces ==
    { <<"e", "p">>, <<"E", "P">>, <<"e">>,
      <<"e", "p", "i", "s", "o", "d", "e">>, <<"E", "p", "i", "s", "o">>,
      <<"_">>, <<"_", "7">>, <<"0">>, <<"4", "2">>,
      <<"1", "2", "3", "4", "5", "6", "7">>, <<"x">>, <<".">> }

Extensions == { <<>>, <<".", "g", "i", "f">>, <<".", "G", "I", "F">> }

RECURSIVE Concat(_)
Concat(ss) == IF ss = <<>> THEN <<>> ELSE Head(ss) \o Concat(Tail(ss))

\* Python integers are unbounded and TLC's have 32 bits: the names keep every
\* digit run within 9 digits, so that int() is exact.
FitsInt(name) ==
    \A i \in 1..Len(name) : Len(DigitRun(name, i, Len(name))) <= 9

Names ==
    { n \in { Concat(ps) \o ext :
                ps \in UNION { [1..k -> Pieces] : k \in 0..MaxParts },
                ext \in Extensions } : FitsInt(n) }

NameIdle == filename = <<>> /\ key = None /\ label = None

VideoIdle ==
    /\ folder_kind = "missing"
    /\ entries = <<>>
    /\ frames_in = <<>>
    /\ resize_width = <<>>
    /\ gif_files = <<>>
    /\ decoded = <<>>
    /\ clips = <<>>
    /\ output = None

RectIdle ==
    frame_w = 0 /\ frame_h = 0 /\ text_w = 0 /\ text_h = 0 /\ rect = None

NormIdle == channel = None /\ site = None /\ normalized = None

SaveIdle == fs0 = <<>> /\ fs = <<>> /\ call = <<>> /\ prev = <<>>

InitName ==
    /\ pc = "start"
    /\ result = None
    /\ filename \in Names
    /\ key = None
    /\ label = None
    /\ VideoIdle
    /\ RectIdle
    /\ NormIdle
    /\ SaveIdle

ExtractEpisodeNumber ==
    /\ pc = "start"
    /\ key' = extract_episode_number(filename)
    /\ pc' = "keyed"
    /\ UNCHANGED <<filename, label, exceptName>>

SafeEpisodeNumber ==
    /\ pc = "keyed"
    /\ label' = safe_episode_number_from_filename(filename)
    /\ pc' = "labelled"
    /\ UNCHANGED <<filename, key, exceptName>>

NextName == ExtractEpisodeNumber \/ SafeEpisodeNumber

SpecName == InitName /\ [][NextName]_vars

(***************************************************************************)
(* Properties of the filename parsers                                      *)
(***************************************************************************)
Min(S) == CHOOSE x \in S : \A y \in S : x <= y

\* positions where "ep" (any case) is immediately followed by a digit
EpOcc(s) ==
    { i \in 1..Len(s) :
        /\ i + 2 <= Len(s)
        /\ LowerStr(SubSeq(s, i, i + 1)) = <<"e", "p">>
        /\ s[i + 2] \in Digit }

\* the maximal run of digits that starts at the digit position j
MaxRun(s, j) ==
    SubSeq(s, j, CHOOSE k \in j..Len(s) :
                    /\ \A m \in j..k : s[m] \in Digit
                    /\ k = Len(s) \/ s[k + 1] \notin Digit)

LeftmostEpRun(s) == MaxRun(s, Min(EpOcc(s)) + 2)

RECURSIVE Pow10(_)
Pow10(n) == IF n = 0 THEN 1 ELSE 10 * Pow10(n - 1)

\* the decimal value of a digit string, most significant digit first
RECURSIVE DecValue(_)
DecValue(ds) ==
    IF ds = <<>> THEN 0
    ELSE DigitVal[Head(ds)] * Pow10(Len(ds) - 1) + DecValue(Tail(ds))

AllDigits(s) == \A i \in 1..Len(s) : s[i] \in Digit

KeywordTokens ==
    { <<"e", "p", "i", "s", "o", "d", "e">>, <<"e", "p">>,
      <<"e", "p", "i", "s", "o">>, <<"e">> }

\* <<i, j>>: a keyword token starts at i, then "_", then a digit at j
KeywordOcc(s) ==
    { p \in (1..Len(s)) \X (1..Len(s)) :
        \E tok \in KeywordTokens :
            /\ p[2] = p[1] + Len(tok) + 1
            /\ LowerStr(SubSeq(s, p[1], p[1] + Len(tok) - 1)) = tok
            /\ s[p[2] - 1] = "_"
            /\ s[p[2]] \in Digit }

DigitPos(s) == { i \in 1..Len(s) : s[i] \in Digit }

\* C3 as stated: the sort key is the value of the digit run of the leftmost
\* "ep<digits>" occurrence, and it is 0 exactly when there is no occurrence.
C3_KeyZeroExactlyWhenNoMatch ==
    pc # "start" =>
        /\ EpOcc(filename) # {} => key = DecValue(LeftmostEpRun(filename))
        /\ key = 0 <=> EpOcc(filename) = {}

\* C3 amended: the sort key is the value of the digit run of the leftmost
\* "ep<digits>" occurrence; it is 0 when there is no occurrence, and otherwise
\* only when that digit run consists of zeros.
C3_KeyIsLeftmostEpRun ==
    pc # "start" =>
        /\ EpOcc(filename) # {} => key = DecValue(LeftmostEpRun(filename))
        /\ EpOcc(filename) = {} => key = 0
        /\ key = 0 <=>
            \/ EpOcc(filename) = {}
            \/ \A i \in 1..Len(LeftmostEpRun(filename)) :
                   LeftmostEpRun(filename)[i] = "0"

\* an occurrence that is not at the start, with a digit run of several digits
C3_Witness ==
    /\ pc = "keyed"
    /\ EpOcc(filename) # {}
    /\ Min(EpOcc(filename)) > 1
    /\ Len(LeftmostEpRun(filename)) >= 2
    /\ key = DecValue(LeftmostEpRun(filename))
    /\ key > 9

\* C9 (docstring of extract_episode_number): for a name "ep_<digits>.gif" the
\* sort key is the value of the digits.
C9_UnderscoreNameGivesNumber ==
    (/\ pc # "start"
     /\ Len(filename) >= 8
     /\ SubSeq(filename, 1, 3) = <<"e", "p", "_">>
     /\ SubSeq(filename, Len(filename) - 3, Len(filename)) = <<".", "g", "i", "f">>
     /\ AllDigits(SubSeq(filename, 4, Len(filename) - 4)))
    => key = DecValue(SubSeq(filename, 4, Len(filename) - 4))

\* C4: the label is computed on the stem by the first rule that matches:
\* ep<digits>, then <token>_<digits>, then the first run of 1 to 6 digits,
\* and it is the stem itself when none matches.
C4_LabelByPriority ==
    pc = "labelled" =>
        LET base == Stem(filename) IN
        IF EpOcc(base) # {} THEN label = LeftmostEpRun(base)
        ELSE IF KeywordOcc(base) # {}
        THEN LET first == Min({ p[1] : p \in KeywordOcc(base) }) IN
             \A p \in KeywordOcc(base) :
                 p[1] = first => label = MaxRun(base, p[2])
        ELSE IF DigitPos(base) # {}
        THEN LET i == Min(DigitPos(base)) IN
             /\ label = SubSeq(base, i, i + Len(label) - 1)
             /\ Len(label) = Min({Len(MaxRun(base, i)), MaxLabelDigits})
        ELSE label = base

\* the keyword rule decides although a digit stands before the keyword
C4_Witness ==
    /\ pc = "labelled"
    /\ EpOcc(Stem(filename)) = {}
    /\ KeywordOcc(Stem(filename)) # {}
    /\ Min(DigitPos(Stem(filename))) < Min({ p[1] : p \in KeywordOcc(Stem(filename)) })
    /\ label = <<"7">>

IsGifName(name) == LowerStr(Suffix(name)) = <<".", "g", "i", "f">>

\* C10: for a name with extension .gif (any case) in which the sort key finds
\* an "ep<digits>" occurrence, the label is that same digit run and its value
\* is the sort key; label and key differ only where there is no occurrence
\* and the key is 0.
C10_LabelAgreesWithKey ==
    (pc = "labelled" /\ IsGifName(filename)) =>
        /\ EpOcc(filename) # {} =>
              /\ label = LeftmostEpRun(filename)
              /\ DecValue(label) = key
        /\ (~AllDigits(label) \/ label = <<>> \/ DecValue(label) # key) =>
              (EpOcc(filename) = {} /\ key = 0)

\* a .gif name whose label comes from the same "ep<digits>" run as its key,
\* with another digit run before it
C10_Witness ==
    /\ pc = "labelled"
    /\ IsGifName(filename)
    /\ EpOcc(filename) # {}
    /\ Min(DigitPos(filename)) < Min(EpOcc(filename))
    /\ label = LeftmostEpRun(filename)
    /\ key = DecValue(label)
    /\ key > 0

(***************************************************************************)
(* create_video_from_gifs                                                  *)
(***************************************************************************)
MaxFiles == 3
MaxFrames == 2

\* default of the parameter fps
DefaultFps == 20

\* names a recordings folder may hold
FilePool ==
    { <<"e", "p", "1", ".", "g", "i", "f">>,
      <<"e", "p", "2", ".", "g", "i", "f">>,
      <<"e", "p", "1", "0", ".", "g", "i", "f">>,
      <<"n", "o", "i", "d", ".", "g", "i", "f">>,
      <<"R", "U", "N", "_", "7", ".", "G", "I", "F">>,
      <<"n", "o", "t", "e", "s", ".", "t", "x", "t">> }

\* enumeration orders of a folder: any order of any distinct names
Listings ==
    { l \in UNION { [1..n -> FilePool] : n \in 0..MaxFiles } :
        \A i, j \in 1..Len(l) : i # j => l[i] # l[j] }

\* Optional[int]: <<>> is None, <<w>> is the width w
ResizeWidths == { <<>>, <<64>> }

\* p.suffix.lower() == ".gif"
HasGifSuffix(name) == LowerStr(Suffix(name)) = <<".", "g", "i", "f">>

\* [p for p in gif_dir.iterdir() if p.suffix.lower() == ".gif"]
RECURSIVE GifEntries(_)
GifEntries(l) ==
    IF l = <<>> THEN <<>>
    ELSE IF HasGifSuffix(Head(l)) THEN <<Head(l)>> \o GifEntries(Tail(l))
    ELSE GifEntries(Tail(l))

\* list.sort places an element after the elements already placed whose key
\* is not greater (the sort is stable)
RECURSIVE InsertByKey(_, _)
InsertByKey(sorted, x) ==
    IF sorted = <<>> THEN <<x>>
    ELSE IF extract_episode_number(sorted[Len(sorted)]) <= extract_episode_number(x)
         THEN Append(sorted, x)
    ELSE Append(InsertByKey(SubSeq(sorted, 1, Len(sorted) - 1), x),
                sorted[Len(sorted)])

RECURSIVE SortFrom(_, _)
SortFrom(sorted, rest) ==
    IF rest = <<>> THEN sorted
    ELSE SortFrom(InsertByKey(sorted, Head(rest)), Tail(rest))

\* as SortedByEpisode, the sort call left out
Unsorted(files) == files

\* gif_files.sort(key=lambda p: extract_episode_number(p.name))
SortedByEpisode(files) == SortFrom(<<>>, files)

\* as NoGifFiles, the emptiness test never taken
NeverEmpty(files) == FALSE

\* if not gif_files
NoGifFiles(files) == files = <<>>

\* f"Episode {ep}"
EpisodeText(ep) == <<"E", "p", "i", "s", "o", "d", "e", " ">> \o ep

\* imageio.mimread: the frames of a recording, in order
MimRead(name) == [k \in 1..frames_in[name] |-> <<name, k>>]

\* _add_episode_text_to_frames: one new frame per frame, the text drawn on it
AddEpisodeText(frames, text) ==
    [k \in 1..Len(frames) |-> [src |-> frames[k], text |-> text]]

\* ImageSequenceClip(frames_with_text, fps=fps), then clip.resize(width=...)
MakeClip(frames, fps, width) ==
    [frames |-> frames,
     fps |-> fps,
     resized |-> width # <<>>,
     width |-> width]

\* as AppendClip, the list rebuilt on every pass
KeepLastClip(cs, clip) == <<clip>>

\* clips.append(clip)
AppendClip(cs, clip) == Append(cs, clip)

\* concatenate_videoclips(clips, method="compose"): the clips one after the other
RECURSIVE ConcatFrames(_)
ConcatFrames(cs) ==
    IF cs = <<>> THEN <<>> ELSE Head(cs).frames \o ConcatFrames(Tail(cs))

InitVideo ==
    /\ pc = "start"
    /\ result = None
    /\ NameIdle
    /\ RectIdle
    /\ NormIdle
    /\ SaveIdle
    /\ folder_kind \in {"missing", "dir", "file"}
    /\ entries \in (IF folder_kind = "dir" THEN Listings ELSE {<<>>})
    /\ frames_in \in [{ entries[i] : i \in { j \in 1..Len(entries) :
                                              HasGifSuffix(entries[j]) } }
                        -> 1..MaxFrames]
    /\ resize_width \in ResizeWidths
    /\ gif_files = <<>>
    /\ decoded = <<>>
    /\ clips = <<>>
    /\ output = None

\* lines 155-168: the folder test, the listing, the sort, the emptiness test
ListGifFiles ==
    /\ pc = "start"
    /\ IF folder_kind = "missing"
       THEN /\ pc' = "raised"
            /\ result' = <<"raise", "FileNotFoundError">>
            /\ UNCHANGED gif_files
       ELSE IF folder_kind = "file"
       THEN /\ pc' = "raised"
            /\ result' = <<"raise", "NotADirectoryError">>
            /\ UNCHANGED gif_files
       ELSE /\ gif_files' = SortedByEpisode(GifEntries(entries))
            /\ IF NoGifFiles(gif_files')
               THEN /\ pc' = "raised"
                    /\ result' = <<"raise", "FileNotFoundError">>
               ELSE /\ pc' = "loop"
                    /\ UNCHANGED result
    /\ UNCHANGED <<exceptVideo, folder_kind, entries, frames_in, resize_width,
                   decoded, clips, output>>

\* lines 172-184: one pass of the loop over gif_files
ProcessGif ==
    /\ pc = "loop"
    /\ Len(decoded) < Len(gif_files)
    /\ LET gif_path == gif_files[Len(decoded) + 1]
           ep == safe_episode_number_from_filename(gif_path)
           frames == MimRead(gif_path)
           frames_with_text == AddEpisodeText(frames, EpisodeText(ep))
       IN /\ decoded' = Append(decoded, gif_path)
          /\ clips' = AppendClip(clips, MakeClip(frames_with_text, DefaultFps,
                                                 resize_width))
    /\ pc' = IF Len(decoded') = Len(gif_files) THEN "concat" ELSE "loop"
    /\ UNCHANGED <<result, exceptVideo, folder_kind, entries, frames_in,
                   resize_width, gif_files, output>>

\* lines 187-191: concatenate, write the video, return its path
WriteVideo ==
    /\ pc = "concat"
    /\ output' = [frames |-> ConcatFrames(clips), codec |-> "libx264"]
    /\ result' = <<"return", "output_file">>
    /\ pc' = "done"
    /\ UNCHANGED <<exceptVideo, folder_kind, entries, frames_in, resize_width,
                   gif_files, decoded, clips>>

NextVideo == ListGifFiles \/ ProcessGif \/ WriteVideo

SpecVideo == InitVideo /\ [][NextVideo]_vars

(***************************************************************************)
(* Properties of create_video_from_gifs                                    *)
(***************************************************************************)
\* the sort key, from the occurrences of "ep<digits>" in the name
EpKey(name) ==
    IF EpOcc(name) = {} THEN 0 ELSE DecValue(LeftmostEpRun(name))

\* the sort key and the banner of every name a folder may hold
PoolKey == [f \in FilePool |-> EpKey(f)]

PoolBanner ==
    [f \in FilePool |->
        <<"E", "p", "i", "s", "o", "d", "e", " ">>
           \o safe_episode_number_from_filename(f)]

PoolIsGif == [f \in FilePool |-> IsGifName(f)]

\* the place of an entry in the folder's enumeration
PosIn(l, name) == CHOOSE i \in 1..Len(l) : l[i] = name

GifNames == { entries[i] : i \in { j \in 1..Len(entries) : PoolIsGif[entries[j]] } }

\* recording f comes before recording g in the processing order: ascending by
\* episode number k, recordings of equal number in the order of the listing
Before(k, f, g) ==
    \/ k[f] < k[g]
    \/ k[f] = k[g] /\ PosIn(entries, f) < PosIn(entries, g)

C2_NotFoundBeforeAnyWork ==
    (/\ pc # "start"
     /\ \/ folder_kind = "missing"
        \/ folder_kind = "dir" /\ GifNames = {})
    => /\ pc = "raised"
       /\ result = <<"raise", "FileNotFoundError">>
       /\ decoded = <<>>
       /\ clips = <<>>
       /\ output = None

\* a folder that exists and holds only a file that is no recording
C2_Witness ==
    /\ pc = "raised"
    /\ folder_kind = "dir"
    /\ entries = << <<"n", "o", "t", "e", "s", ".", "t", "x", "t">> >>
    /\ result = <<"raise", "FileNotFoundError">>
    /\ output = None

RECURSIVE SumFrames(_)
SumFrames(S) ==
    IF S = {} THEN 0
    ELSE LET f == CHOOSE x \in S : TRUE IN frames_in[f] + SumFrames(S \ {f})

\* C6: the written video is the recordings' frames one recording after the
\* other in processing order: as many frames as the recordings hold together;
\* it starts with a first frame and ends with a last frame of a recording;
\* a frame is followed by the next frame of its recording or, after the last
\* one, by the first frame of a recording later in the order (so no frame is
\* dropped, repeated or mixed with another recording's); and every frame has
\* the banner "Episode <label>" of its own recording's name.
C6_SequentialConcatenation ==
    pc = "done" =>
        LET video == output.frames
            k == PoolKey
            banner == PoolBanner
        IN
        /\ result = <<"return", "output_file">>
        /\ Len(video) = SumFrames(GifNames)
        /\ video # <<>>
        /\ video[1].src[2] = 1
        /\ video[Len(video)].src[2] = frames_in[video[Len(video)].src[1]]
        /\ \A p \in 1..(Len(video) - 1) :
              LET a == video[p].src
                  b == video[p + 1].src
              IN \/ a[1] = b[1] /\ b[2] = a[2] + 1
                 \/ /\ a[1] # b[1]
                    /\ a[2] = frames_in[a[1]]
                    /\ b[2] = 1
                    /\ Before(k, a[1], b[1])
        /\ \A p \in 1..Len(video) : video[p].text = banner[video[p].src[1]]

\* ep1.gif, ep10.gif, ep2.gif of two frames each: six frames, bannered
\* 1, 1, 2, 2, 10, 10
C6_Witness ==
    /\ pc = "done"
    /\ entries = << <<"e", "p", "1", ".", "g", "i", "f">>,
                    <<"e", "p", "1", "0", ".", "g", "i", "f">>,
                    <<"e", "p", "2", ".", "g", "i", "f">> >>
    /\ \A i \in 1..3 : frames_in[entries[i]] = 2
    /\ [p \in 1..Len(output.frames) |-> output.frames[p].text] =
          << <<"E", "p", "i", "s", "o", "d", "e", " ", "1">>,
             <<"E", "p", "i", "s", "o", "d", "e", " ", "1">>,
             <<"E", "p", "i", "s", "o", "d", "e", " ", "2">>,
             <<"E", "p", "i", "s", "o", "d", "e", " ", "2">>,
             <<"E", "p", "i", "s", "o", "d", "e", " ", "1", "0">>,
             <<"E", "p", "i", "s", "o", "d", "e", " ", "1", "0">> >>

(***************************************************************************)
(* _add_episode_text_to_frames: the banner rectangle of one frame          *)
(***************************************************************************)
MaxWidth == 20
MaxHeight == 20
MaxTextWidth == 24
MaxTextHeight == 2

\* y = text_h + 10
TopMargin == 10

\* the padding in rect_x1 = max(x - 8, 0) and the three lines after it
BannerPad == 8

Max2(a, b) == IF a >= b THEN a ELSE b
Min2(a, b) == IF a <= b THEN a ELSE b

\* Python's //: the floor of the quotient
FloorDiv(a, b) == a \div b

TextX(w, tw) == FloorDiv(w - tw, 2)
TextY(th) == th + TopMargin

\* lines 88-91
BannerRect(w, h, tw, th) ==
    [x1 |-> Max2(TextX(w, tw) - BannerPad, 0),
     y1 |-> Max2(TextY(th) - th - BannerPad, 0),
     x2 |-> Min2(TextX(w, tw) + tw + BannerPad, w),
     y2 |-> Min2(TextY(th) + BannerPad, h),
     x |-> TextX(w, tw),
     y |-> TextY(th)]

InitRect ==
    /\ pc = "start"
    /\ result = None
    /\ NameIdle
    /\ VideoIdle
    /\ NormIdle
    /\ SaveIdle
    /\ frame_w \in 1..MaxWidth
    /\ frame_h \in 1..MaxHeight
    /\ text_w \in 0..MaxTextWidth
    /\ text_h \in 0..MaxTextHeight
    /\ rect = None

\* lines 79-96: measure the text, place it, compute the rectangle behind it
DrawBanner ==
    /\ pc = "start"
    /\ rect' = BannerRect(frame_w, frame_h, text_w, text_h)
    /\ pc' = "drawn"
    /\ UNCHANGED <<frame_w, frame_h, text_w, text_h, exceptRect>>

NextRect == DrawBanner

SpecRect == InitRect /\ [][NextRect]_vars

\* C5: for every frame of width and height at least 1 and every text size,
\* the banner rectangle lies within the frame: 0 <= rect_x1, rect_x2 <= w and
\* 0 <= rect_y1, rect_y2 <= h.
C5_RectWithinFrame ==
    pc = "drawn" =>
        /\ 0 <= rect.x1 /\ rect.x1 <= frame_w
        /\ 0 <= rect.x2 /\ rect.x2 <= frame_w
        /\ 0 <= rect.y1 /\ rect.y1 <= frame_h
        /\ 0 <= rect.y2 /\ rect.y2 <= frame_h

(***************************************************************************)
(* Frame normalisation, in save_gif and in _add_episode_text_to_frames.    *)
(* A channel value is a fraction num/den with the dtype of its array;      *)
(* den = 0 is the floating-point NaN.                                      *)
(***************************************************************************)
FloatDen == 8
MaxInt == 300

Uint8Channels == { [dtype |-> "uint8", num |-> n, den |-> 1] : n \in 0..255 }

FloatChannels ==
    { [dtype |-> "float64", num |-> n, den |-> FloatDen] :
        n \in (0 - FloatDen)..(2 * FloatDen) }
    \cup { [dtype |-> "float64", num |-> 0, den |-> 0] }

IntChannels ==
    { [dtype |-> "int64", num |-> n, den |-> 1] : n \in (0 - MaxInt)..MaxInt }

Channels == Uint8Channels \cup FloatChannels \cup IntChannels

IsNaN(v) == v.den = 0

\* np.clip(arr, 0, 1)
Clip01(v) ==
    IF IsNaN(v) THEN v
    ELSE IF v.num < 0 THEN [v EXCEPT !.num = 0]
    ELSE IF v.num > v.den THEN [v EXCEPT !.num = v.den]
    ELSE v

\* 255 * arr
Times255(v) == [v EXCEPT !.num = 255 * v.num]

\* the integer part, towards zero
Trunc(v) ==
    IF v.num >= 0 THEN v.num \div v.den ELSE 0 - ((0 - v.num) \div v.den)

\* arr.astype(np.uint8): the integer part, modulo 2^8; the cast of NaN is
\* undefined and may give any value
AsUint8(v) == IF IsNaN(v) THEN 0..255 ELSE { Trunc(v) % 256 }

\* as NormalizeForGif, without the np.clip
NormalizeForGifNoClip(v) ==
    IF v.dtype # "uint8" THEN AsUint8(Times255(v)) ELSE { v.num }

\* save_gif, lines 132-134
NormalizeForGif(v) ==
    IF v.dtype # "uint8" THEN AsUint8(Times255(Clip01(v))) ELSE { v.num }

\* _add_episode_text_to_frames, lines 72-74
NormalizeForText(v) ==
    IF v.dtype # "uint8" THEN AsUint8(Times255(Clip01(v))) ELSE { v.num }

InitNorm ==
    /\ pc = "start"
    /\ result = None
    /\ NameIdle
    /\ VideoIdle
    /\ RectIdle
    /\ SaveIdle
    /\ channel \in Channels
    /\ site = None
    /\ normalized = None

NormalizeInSaveGif ==
    /\ pc = "start"
    /\ normalized' \in NormalizeForGif(channel)
    /\ site' = "save_gif"
    /\ pc' = "normalized"
    /\ UNCHANGED <<channel, exceptNorm>>

NormalizeInAddText ==
    /\ pc = "start"
    /\ normalized' \in NormalizeForText(channel)
    /\ site' = "_add_episode_text_to_frames"
    /\ pc' = "normalized"
    /\ UNCHANGED <<channel, exceptNorm>>

NextNorm == NormalizeInSaveGif \/ NormalizeInAddText

SpecNorm == InitNorm /\ [][NextNorm]_vars

\* C8: normalisation gives a value in 0..255; a uint8 value is unchanged; a
\* value v of any other dtype becomes the integer part of 255 * clamp(v, 0, 1):
\* 0 for v <= 0 and 255 for v >= 1.
C8_NormalizedRange ==
    pc = "normalized" =>
        /\ normalized \in 0..255
        /\ channel.dtype = "uint8" => normalized = channel.num
        /\ (channel.dtype # "uint8" /\ channel.den # 0) =>
              /\ channel.num <= 0 => normalized = 0
              /\ channel.num >= channel.den => normalized = 255
              /\ (0 < channel.num /\ channel.num < channel.den) =>
                    /\ normalized * channel.den <= 255 * channel.num
                    /\ 255 * channel.num < (normalized + 1) * channel.den

\* 0.5 becomes 127 in save_gif
C8_Witness ==
    /\ pc = "normalized"
    /\ site = "save_gif"
    /\ channel.dtype = "float64"
    /\ channel.den # 0
    /\ 2 * channel.num = channel.den
    /\ normalized = 127

(***************************************************************************)
(* save_gif and the filesystem it writes to.  A path is the sequence of    *)
(* its components, relative to the working directory <<>>.                 *)
(***************************************************************************)
MaxDepth == 2

DirName == <<"d">>

EpisodeNames == { <<"e", "p", "1">>, <<"e", "p", "2">> }

\* f"{episode_name}.gif"
GifFileName(episode_name) == episode_name \o <<".", "g", "i", "f">>

Folders == { [i \in 1..d |-> DirName] : d \in 1..MaxDepth }

Paths ==
    Folders \cup { f \o <<GifFileName(e)>> : f \in Folders, e \in EpisodeNames }

Absent == [kind |-> "absent", data |-> <<>>]
Directory == [kind |-> "dir", data |-> <<>>]
\* a file that save_gif did not write
OtherFile == [kind |-> "file", data |-> <<"other">>]

Parent(path) == SubSeq(path, 1, Len(path) - 1)

KindAt(f, path) == IF path = <<>> THEN "dir" ELSE f[path].kind

\* the states a filesystem can be in: what exists lies in a directory, and
\* only a folder path can hold entries
Filesystems ==
    { f \in [Paths -> {Absent, Directory, OtherFile}] :
        \A p \in Paths :
            f[p].kind # "absent" => KindAt(f, Parent(p)) = "dir" }

\* frames given to save_gif: a frame is one channel value here
FrameLists ==
    { << [dtype |-> "uint8", num |-> 200, den |-> 1] >>,
      << [dtype |-> "float64", num |-> 1, den |-> 2],
         [dtype |-> "float64", num |-> 3, den |-> 2] >> }

\* os.mkdir(path): the first component on the way that is no directory
\* decides between ENOTDIR and ENOENT
OsMkdir(f, path) ==
    LET bad == { k \in 0..(Len(path) - 1) : KindAt(f, SubSeq(path, 1, k)) # "dir" } IN
    IF path = <<>> THEN [fs |-> f, err |-> "FileExistsError"]
    ELSE IF bad # {}
    THEN LET first == CHOOSE k \in bad : \A j \in bad : k <= j IN
         [fs |-> f,
          err |-> IF KindAt(f, SubSeq(path, 1, first)) = "file"
                  THEN "NotADirectoryError" ELSE "FileNotFoundError"]
    ELSE IF KindAt(f, path) # "absent" THEN [fs |-> f, err |-> "FileExistsError"]
    ELSE [fs |-> [f EXCEPT ![path] = Directory], err |-> None]

\* Path.mkdir(parents=..., exist_ok=...)
RECURSIVE Mkdir(_, _, _, _)
Mkdir(f, path, parents, exist_ok) ==
    LET r == OsMkdir(f, path) IN
    IF r.err = None THEN r
    ELSE IF r.err = "FileNotFoundError"
    THEN IF ~parents \/ path = <<>> THEN r
         ELSE LET up == Mkdir(f, Parent(path), TRUE, TRUE) IN
              IF up.err # None THEN up
              ELSE Mkdir(up.fs, path, FALSE, exist_ok)
    ELSE IF ~exist_ok \/ KindAt(f, path) # "dir" THEN r
    ELSE [fs |-> f, err |-> None]

\* as MakeFolder, with exist_ok left at its default
MakeFolderNoExistOk(f, folder) == Mkdir(f, folder, TRUE, FALSE)

\* folder_path.mkdir(parents=True, exist_ok=True)
MakeFolder(f, folder) == Mkdir(f, folder, TRUE, TRUE)

\* the loop of lines 130-135 (a defined value has one outcome)
SafeFrames(frames) ==
    [k \in 1..Len(frames) |-> CHOOSE x \in NormalizeForGif(frames[k]) : TRUE]

\* imageio.mimsave(str(filename), safe_frames, fps=fps): the file is created
\* or replaced
MimSave(f, path, frames, fps) ==
    IF KindAt(f, path) = "dir" THEN [fs |-> f, err |-> "IsADirectoryError"]
    ELSE [fs |-> [f EXCEPT ![path] =
                    [kind |-> "file", data |-> <<frames, fps>>]],
          err |-> None]

\* str(path): the components joined by "/"
RECURSIVE PathStr(_)
PathStr(path) ==
    IF path = <<>> THEN <<".">>
    ELSE IF Len(path) = 1 THEN path[1]
    ELSE PathStr(Parent(path)) \o <<"/">> \o path[Len(path)]

\* save_gif(frames, episode_name, folder, fps): <<filesystem, result>>
save_gif(f, frames, episode_name, folder, fps) ==
    LET made == MakeFolder(f, folder)
        file == folder \o <<GifFileName(episode_name)>>
        saved == MimSave(made.fs, file, SafeFrames(frames), fps)
    IN IF made.err # None THEN <<made.fs, <<"raise", made.err>>>>
       ELSE IF saved.err # None THEN <<saved.fs, <<"raise", saved.err>>>>
       ELSE <<saved.fs, <<"return", PathStr(file)>>>>

NoCall == [args |-> <<>>, result |-> None, fs |-> <<>>]

InitSave ==
    /\ pc = "start"
    /\ result = None
    /\ NameIdle
    /\ VideoIdle
    /\ RectIdle
    /\ NormIdle
    /\ fs0 \in Filesystems
    /\ fs = fs0
    /\ call = <<>>
    /\ prev = NoCall

\* one call of save_gif
SaveGif(frames, episode_name, folder) ==
    /\ pc \in {"start", "once"}
    /\ LET r == save_gif(fs, frames, episode_name, folder, DefaultFps) IN
          /\ fs' = r[1]
          /\ result' = r[2]
    /\ call' = <<frames, episode_name, folder, DefaultFps>>
    /\ prev' = [args |-> call, result |-> result, fs |-> fs]
    /\ pc' = IF pc = "start" THEN "once" ELSE "twice"
    /\ UNCHANGED <<fs0, exceptSave>>

NextSave ==
    \E frames \in FrameLists, episode_name \in EpisodeNames, folder \in Folders :
        SaveGif(frames, episode_name, folder)

SpecSave == InitSave /\ [][NextSave]_vars

(***************************************************************************)
(* Properties of save_gif                                                  *)
(***************************************************************************)
\* the filesystem the last call started from
FsBefore == IF pc = "once" THEN fs0 ELSE prev.fs

CallFolder == call[3]
CallFile == call[3] \o <<call[2] \o <<".", "g", "i", "f">>>>

\* the text "folder/episode_name.gif" of the last call
CallPathText ==
    Concat([k \in 1..Len(CallFolder) |-> CallFolder[k] \o <<"/">>])
        \o call[2] \o <<".", "g", "i", "f">>

\* the last call returned the path of its file, and the folder, its parent
\* directories and the file are there
Succeeded ==
    /\ result = <<"return", CallPathText>>
    /\ \A k \in 1..Len(CallFolder) : fs[SubSeq(CallFolder, 1, k)].kind = "dir"
    /\ fs[CallFile].kind = "file"
    /\ fs[CallFile].data = <<SafeFrames(call[1]), call[4]>>

\* nothing that is not a directory stands in the folder's place or in an
\* ancestor's, and no directory stands in the file's place
NotBlocked(f) ==
    /\ \A k \in 1..Len(CallFolder) :
          f[SubSeq(CallFolder, 1, k)].kind \in {"absent", "dir"}
    /\ f[CallFile].kind # "dir"

\* C7 as stated: from any filesystem state save_gif creates the folder and its
\* missing parents, leaves the file at folder/episode_name.gif and returns
\* that path; a second call with the same arguments ends in the same
\* filesystem state.
C7_SaveGifFromAnyState ==
    pc \in {"once", "twice"} =>
        /\ Succeeded
        /\ (pc = "twice" /\ call = prev.args) => fs = prev.fs

\* C7 amended: the same, from any filesystem state in which the folder and
\* each of its ancestors is absent or a directory and folder/episode_name.gif
\* is not a directory; a second call with the arguments of a first call that
\* returned also returns and leaves the filesystem as the first call left it.
C7_SaveGifWhenNotBlocked ==
    pc \in {"once", "twice"} =>
        /\ NotBlocked(FsBefore) => Succeeded
        /\ (pc = "twice" /\ call = prev.args /\ prev.result[1] = "return") =>
              /\ Succeeded
              /\ fs = prev.fs

\* two calls with the same arguments, the first one creating the folder and
\* its parent
C7_Witness ==
    /\ pc = "twice"
    /\ call = prev.args
    /\ Len(CallFolder) >= 2
    /\ fs0[<<DirName>>].kind = "absent"
    /\ Succeeded
    /\ fs = prev.fs

====
